---- MODULE Spec2Model ----
(***************************************************************************)
(* Model of account_move_csv_import/wizard/import_move.py                  *)
(* (AccountMoveImport): the entry assembler create_moves_from_pivot, the   *)
(* reconciliation matcher reconcile_move_lines, and the format decoders    *)
(* with update_pivot.                                                      *)
(*                                                                         *)
(* Amounts are Python floats in the source.  Here an amount is an integer  *)
(* number of thousandths of the currency unit (1000 = 1.00, 4 = 0.004), so *)
(* that values smaller than the currency rounding (0.01 = 10) exist and    *)
(* the rounding-tolerant zero test is not the same as equality with 0.     *)
(* A Python value that may be a float, an int or a bool is a record        *)
(* [t |-> "float" | "int" | "bool", v |-> thousandths].                    *)
(***************************************************************************)
EXTENDS Integers, Sequences, FiniteSets, TLC

VARIABLES
    \* create_moves_from_pivot
    pivot,            \* the list of pivot lines (mutated by the matching loop)
    pc,               \* position in create_moves_from_pivot
    idx,              \* index of the next line of the running for-loop
    moves,            \* list of move dicts ready for creation
    cur_journal_id, cur_ref, cur_date, cur_balance, cur_move,
    rmoves,           \* account.move records created so far (amo.create)
    posted,           \* whether rmoves.post() was called
    error,            \* the exception that ended the method, or NoError
    \* reconcile_move_lines
    move_lines,       \* the account.move.line records of the created moves
    rpc,              \* position in reconcile_move_lines
    lines,            \* result of the search on import_reconcile
    torec,            \* reconcile mark -> move lines, in insertion order
    ridx,             \* index of the next item of torec.items()
    reconciled,       \* the recordsets on which reconcile() was called
    warnings,         \* the logger.warning calls: mark and reason
    rerror,           \* the exception that ended the method, or NoError
    \* file2pivot and update_pivot
    file_format,      \* self.file_format
    rows,             \* the records the reader yields for the file
    i,                \* the line counter of the decoder
    res,              \* the pivot lines appended so far, then the pivot
    dpc,              \* position in run_import
    derror            \* the exception that ended the decoder, or NoError

asmVars == <<pivot, pc, idx, moves, cur_journal_id, cur_ref, cur_date,
             cur_balance, cur_move, rmoves, posted, error>>

recVars == <<move_lines, rpc, lines, torec, ridx, reconciled, warnings, rerror>>

decVars == <<file_format, rows, i, res, dpc, derror>>

vars == <<asmVars, recVars, decVars>>

----------------------------------------------------------------------------
\* Bounds of the model

MaxLines == 4
\* lines of a pivot of the grouping-scan specification
MaxScanLines == 5
MaxMoveLines == 3
MaxRows == 2

----------------------------------------------------------------------------
\* Python values

Float(v) == [t |-> "float", v |-> v]
PyInt(v) == [t |-> "int", v |-> v]
PyFalse == [t |-> "bool", v |-> 0]

\* Python truthiness of a number (False, 0 and 0.0 are falsy)
Truthy(x) == x.v # 0

Abs(n) == IF n < 0 THEN -n ELSE n

\* company currency rounding, 0.01, in thousandths
Rounding == 10

\* odoo.tools.float_is_zero(value, precision_rounding=prec):
\* abs(float_round(value, precision_rounding=prec)) < prec, with HALF-UP
\* rounding; the rounded value is 0 exactly when |value| < prec / 2.
float_is_zero(value, precision_rounding) ==
    2 * Abs(value) < precision_rounding

----------------------------------------------------------------------------
\* Exceptions

NoError == [type |-> "", line |-> 0, msg |-> ""]
UserError(line, msg) == [type |-> "UserError", line |-> line, msg |-> msg]
AssertionError(msg) == [type |-> "AssertionError", line |-> 0, msg |-> msg]

----------------------------------------------------------------------------
\* Pivot lines handed to create_moves_from_pivot

\* `False`, as the value of cur_ref / cur_date / cur_journal_id before the
\* first line and of l.get('ref', False) when the line has no 'ref' key
NoRef == "False"
NoDate == "False"
NoId == 0
\* None / False as the value of import_reconcile (NULL in the database)
NoTag == "None"

\* business.document.import speed dicts: code -> database id
AccountSpeedDict == [c \in {"411000", "626000"} |-> IF c = "411000" THEN 11 ELSE 12]
JournalSpeedDict == [c \in {"VT", "AC"} |-> IF c = "VT" THEN 1 ELSE 2]

\* (journal code, ref, date) of the lines of the inputs
PivotKeys ==
    { <<"VT", NoRef, "2019-01-31">>,
      <<"AC", NoRef, "2019-01-31">>,
      <<"VT", "R1", "2019-01-31">>,
      <<"VT", NoRef, "2019-02-01">> }

\* (credit, debit) of the lines of the inputs
PivotAmounts ==
    { <<Float(1000), Float(0)>>,
      <<Float(0), Float(1000)>>,
      <<Float(4), Float(0)>> }

Shape(journal, ref, date, account, name, credit, debit) ==
    [journal |-> journal, ref |-> ref, date |-> date, account |-> account,
     name |-> name, credit |-> credit, debit |-> debit]

WellFormedShapes ==
    { Shape(k[1], k[2], k[3], "411000", "label", a[1], a[2]) :
        k \in PivotKeys, a \in PivotAmounts }

\* lines that the matching/checking loop rejects
RejectedShapes ==
    { Shape("VT", NoRef, "2019-01-31", "999999", "label", Float(1000), Float(0)),
      Shape("VT", NoRef, "2019-01-31", "411000", "", Float(1000), Float(0)),
      Shape("VT", NoRef, "", "411000", "label", Float(1000), Float(0)) }

PivotShapes == WellFormedShapes \cup RejectedShapes

\* a pivot: the shapes numbered by their position, 'line' being the file line
PivotOf(shapes) ==
    [pos \in 1..Len(shapes) |->
        [line |-> pos, journal |-> shapes[pos].journal, ref |-> shapes[pos].ref,
         date |-> shapes[pos].date, account |-> shapes[pos].account,
         name |-> shapes[pos].name, credit |-> shapes[pos].credit,
         debit |-> shapes[pos].debit, account_id |-> NoId, journal_id |-> NoId]]


----------------------------------------------------------------------------
\* create_moves_from_pivot

EmptyDict == [journal_id |-> NoId, ref |-> NoRef, date |-> NoDate, line_ids |-> <<>>]

_prepare_move(pivot_line) ==
    [journal_id |-> pivot_line.journal_id,
     ref |-> pivot_line.ref,
     date |-> pivot_line.date,
     line_ids |-> <<>>]

\* the pivot lines of this model carry no 'partner', 'analytic' or
\* 'reconcile_ref' key, so the three .get() calls give None
_prepare_move_line(pivot_line) ==
    [credit |-> pivot_line.credit.v,
     debit |-> pivot_line.debit.v,
     name |-> pivot_line.name,
     partner_id |-> NoId,
     account_id |-> pivot_line.account_id,
     analytic_account_id |-> NoId,
     import_reconcile |-> NoTag]

\* reconcile_move_lines is not running
RecIdle ==
    /\ move_lines = <<>>
    /\ rpc = "idle"
    /\ lines = <<>>
    /\ torec = <<>>
    /\ ridx = 1
    /\ reconciled = <<>>
    /\ warnings = <<>>
    /\ rerror = NoError

\* no file is being decoded
DecIdle ==
    /\ file_format = ""
    /\ rows = <<>>
    /\ i = 0
    /\ res = <<>>
    /\ dpc = "idle"
    /\ derror = NoError

Init ==
    /\ \E n \in 0..MaxLines : \E shapes \in [1..n -> PivotShapes] :
          pivot = PivotOf(shapes)
    /\ pc = "match"
    /\ idx = 1
    /\ moves = <<>>
    /\ cur_journal_id = NoId
    /\ cur_ref = NoRef
    /\ cur_date = NoDate
    /\ cur_balance = 0
    /\ cur_move = EmptyDict
    /\ rmoves = <<>>
    /\ posted = FALSE
    /\ error = NoError
    /\ RecIdle
    /\ DecIdle

Raise(e) ==
    /\ pc' = "raised"
    /\ error' = e

\* The exception the body of the first loop raises on line l, or NoError
MatchError(l) ==
    IF l.account \notin DOMAIN AccountSpeedDict
        THEN UserError(l.line, "no account")
    ELSE IF l.journal \notin DOMAIN JournalSpeedDict
        THEN UserError(l.line, "no journal")
    ELSE IF l.name = "" THEN UserError(l.line, "missing label")
    ELSE IF l.date = "" THEN UserError(l.line, "missing date")
    ELSE IF l.credit.t # "float" THEN UserError(l.line, "bad value for credit")
    ELSE IF l.debit.t # "float" THEN UserError(l.line, "bad value for debit")
    ELSE NoError

\* one iteration of "for l in pivot" of MATCH what needs to be matched + CHECKS
MatchLine ==
    /\ pc = "match"
    /\ idx <= Len(pivot)
    /\ LET l == pivot[idx] IN
        IF MatchError(l) # NoError
        THEN /\ Raise(MatchError(l))
             /\ pivot' =
                  IF l.account \in DOMAIN AccountSpeedDict
                  THEN [pivot EXCEPT ![idx].account_id = AccountSpeedDict[l.account],
                                     ![idx].journal_id =
                                        IF l.journal \in DOMAIN JournalSpeedDict
                                        THEN JournalSpeedDict[l.journal] ELSE NoId]
                  ELSE pivot
             /\ UNCHANGED idx
        ELSE /\ pivot' = [pivot EXCEPT ![idx].account_id = AccountSpeedDict[l.account],
                                       ![idx].journal_id = JournalSpeedDict[l.journal]]
             /\ idx' = idx + 1
             /\ UNCHANGED <<pc, error>>
    /\ UNCHANGED <<moves, cur_journal_id, cur_ref, cur_date, cur_balance,
                   cur_move, rmoves, posted>>
    /\ UNCHANGED <<recVars, decVars>>

\* the first loop is exhausted: moves = [], cur_* = False, cur_balance = 0.0
StartExtract ==
    /\ pc = "match"
    /\ idx > Len(pivot)
    /\ pc' = "extract"
    /\ idx' = 1
    /\ moves' = <<>>
    /\ cur_journal_id' = NoId
    /\ cur_ref' = NoRef
    /\ cur_date' = NoDate
    /\ cur_balance' = 0
    /\ cur_move' = EmptyDict
    /\ UNCHANGED <<pivot, rmoves, posted, error>>
    /\ UNCHANGED <<recVars, decVars>>

\* the local variables of the EXTRACT MOVES loop
ScanState ==
    [moves |-> moves, cur_journal_id |-> cur_journal_id, cur_ref |-> cur_ref,
     cur_date |-> cur_date, cur_balance |-> cur_balance, cur_move |-> cur_move,
     error |-> error]

\* moves = [] ... cur_move = {}
ScanStart ==
    [moves |-> <<>>, cur_journal_id |-> NoId, cur_ref |-> NoRef,
     cur_date |-> NoDate, cur_balance |-> 0, cur_move |-> EmptyDict,
     error |-> NoError]

\* the body of "for l in pivot" of EXTRACT MOVES, on the line l
ExtractStep(s, l) ==
    LET ref == l.ref
        prec == Rounding
        added == l.credit.v - l.debit.v
    IN
    IF /\ s.cur_ref = ref
       /\ s.cur_journal_id = l.journal_id
       /\ s.cur_date = l.date
       /\ ~float_is_zero(s.cur_balance, prec)
    THEN \* append to current move
         [s EXCEPT !.cur_move.line_ids = Append(@, _prepare_move_line(l)),
                   !.cur_balance = @ + added]
    ELSE \* new move
         IF s.moves # <<>> /\ ~float_is_zero(s.cur_balance, prec)
         THEN [s EXCEPT !.error = UserError(l.line - 1, "not balanced")]
         ELSE IF s.cur_move # EmptyDict /\ ~(Len(s.cur_move.line_ids) > 1)
         THEN [s EXCEPT !.error = AssertionError("move should have more than 1 line")]
         ELSE [s EXCEPT
                 !.moves = IF s.cur_move # EmptyDict THEN Append(@, s.cur_move) ELSE @,
                 !.cur_move = [_prepare_move(l) EXCEPT
                                  !.line_ids = <<_prepare_move_line(l)>>],
                 !.cur_date = l.date,
                 !.cur_ref = ref,
                 !.cur_journal_id = l.journal_id,
                 !.cur_balance = @ + added]

\* the statements between the EXTRACT MOVES loop and the creation loop
ExtractEnd(s) ==
    LET appended == IF s.cur_move # EmptyDict
                    THEN [s EXCEPT !.moves = Append(@, s.cur_move)]
                    ELSE s
    IN IF ~float_is_zero(s.cur_balance, Rounding)
       THEN [appended EXCEPT !.error = UserError(0, "last not balanced")]
       ELSE appended

SetScanState(s) ==
    /\ moves' = s.moves
    /\ cur_journal_id' = s.cur_journal_id
    /\ cur_ref' = s.cur_ref
    /\ cur_date' = s.cur_date
    /\ cur_balance' = s.cur_balance
    /\ cur_move' = s.cur_move
    /\ error' = s.error

\* one iteration of "for l in pivot" of EXTRACT MOVES
ExtractLineCreatingOnSeal ==
    /\ pc = "extract"
    /\ idx <= Len(pivot)
    /\ LET s == ExtractStep(ScanState, pivot[idx]) IN
        /\ SetScanState(s)
        /\ pc' = IF s.error # NoError THEN "raised" ELSE pc
        /\ idx' = IF s.error # NoError THEN idx ELSE idx + 1
        /\ rmoves' = s.moves
    /\ UNCHANGED <<pivot, posted>>
    /\ UNCHANGED <<recVars, decVars>>

ExtractLine ==
    /\ pc = "extract"
    /\ idx <= Len(pivot)
    /\ LET s == ExtractStep(ScanState, pivot[idx]) IN
        /\ SetScanState(s)
        /\ pc' = IF s.error # NoError THEN "raised" ELSE pc
        /\ idx' = IF s.error # NoError THEN idx ELSE idx + 1
    /\ UNCHANGED <<pivot, rmoves, posted>>
    /\ UNCHANGED <<recVars, decVars>>

\* EndExtract without "if cur_move: moves.append(cur_move)"
EndExtractDroppingOpenMove ==
    /\ pc = "extract"
    /\ idx > Len(pivot)
    /\ LET s == [ExtractEnd(ScanState) EXCEPT !.moves = moves] IN
        /\ SetScanState(s)
        /\ pc' = IF s.error # NoError THEN "raised" ELSE "create"
    /\ idx' = 1
    /\ UNCHANGED <<pivot, rmoves, posted>>
    /\ UNCHANGED <<recVars, decVars>>

\* after the loop: append the open move, check the final balance
EndExtract ==
    /\ pc = "extract"
    /\ idx > Len(pivot)
    /\ LET s == ExtractEnd(ScanState) IN
        /\ SetScanState(s)
        /\ pc' = IF s.error # NoError THEN "raised" ELSE "create"
    /\ idx' = 1
    /\ UNCHANGED <<pivot, rmoves, posted>>
    /\ UNCHANGED <<recVars, decVars>>

\* one iteration of "for move in moves: rmoves += amo.create(move)"
CreateMove ==
    /\ pc = "create"
    /\ idx <= Len(moves)
    /\ rmoves' = Append(rmoves, moves[idx])
    /\ idx' = idx + 1
    /\ UNCHANGED <<pivot, pc, moves, cur_journal_id, cur_ref, cur_date,
                   cur_balance, cur_move, posted, error>>
    /\ UNCHANGED <<recVars, decVars>>

\* "if post: rmoves.post()" and "return rmoves"
Return ==
    /\ pc = "create"
    /\ idx > Len(moves)
    /\ \E post \in BOOLEAN : posted' = post
    /\ pc' = "returned"
    /\ UNCHANGED <<pivot, idx, moves, cur_journal_id, cur_ref, cur_date,
                   cur_balance, cur_move, rmoves, error>>
    /\ UNCHANGED <<recVars, decVars>>

Next ==
    \/ MatchLine
    \/ StartExtract
    \/ ExtractLine
    \/ EndExtract
    \/ CreateMove
    \/ Return

Spec == Init /\ [][Next]_vars

\* create_moves_from_pivot on longer pivots of round amounts: each line
\* debits or credits 1.00 under one of three keys, or has no label
ScanKeys ==
    { <<"VT", NoRef, "2019-01-31">>,
      <<"AC", NoRef, "2019-01-31">>,
      <<"VT", "R1", "2019-02-01">> }

ScanAmounts ==
    { <<Float(1000), Float(0)>>,
      <<Float(0), Float(1000)>> }

ScanShapes ==
    { Shape(k[1], k[2], k[3], "411000", "label", a[1], a[2]) :
        k \in ScanKeys, a \in ScanAmounts }
    \cup { Shape("VT", NoRef, "2019-01-31", "411000", "", Float(1000), Float(0)) }

ScanInit ==
    /\ \E n \in 0..MaxScanLines : \E shapes \in [1..n -> ScanShapes] :
          pivot = PivotOf(shapes)
    /\ pc = "match"
    /\ idx = 1
    /\ moves = <<>>
    /\ cur_journal_id = NoId
    /\ cur_ref = NoRef
    /\ cur_date = NoDate
    /\ cur_balance = 0
    /\ cur_move = EmptyDict
    /\ rmoves = <<>>
    /\ posted = FALSE
    /\ error = NoError
    /\ RecIdle
    /\ DecIdle

ScanSpec == ScanInit /\ [][Next]_vars

----------------------------------------------------------------------------
\* create_moves_from_pivot as a function of the matched pivot

RECURSIVE ScanFrom(_, _, _)
ScanFrom(s, p, pos) ==
    IF s.error # NoError \/ pos > Len(p) THEN s
    ELSE ScanFrom(ExtractStep(s, p[pos]), p, pos + 1)

\* the moves handed to creation and the exception, for the matched pivot p
ExtractMoves(p) ==
    LET s == ScanFrom(ScanStart, p, 1)
    IN IF s.error # NoError THEN s ELSE ExtractEnd(s)

RECURSIVE SumLines(_)
SumLines(ls) ==
    IF ls = <<>> THEN 0
    ELSE ls[1].credit - ls[1].debit + SumLines(Tail(ls))

\* credit - debit summed over the lines of a move
MoveBalance(move) == SumLines(move.line_ids)

Balanced(move) == float_is_zero(MoveBalance(move), Rounding)

\* the index in the pivot of the first line of the k-th move of ms
RECURSIVE BlockStart(_, _)
BlockStart(ms, k) ==
    IF k = 1 THEN 1 ELSE BlockStart(ms, k - 1) + Len(ms[k - 1].line_ids)

\* the pivot lines that went into the k-th move of ms
Block(p, ms, k) ==
    SubSeq(p, BlockStart(ms, k), BlockStart(ms, k) + Len(ms[k].line_ids) - 1)

\* the blocks of p in the order perm[1], perm[2], ...
RECURSIVE Reordered(_, _, _, _)
Reordered(p, ms, perm, k) ==
    IF k > Len(ms) THEN <<>>
    ELSE Block(p, ms, perm[k]) \o Reordered(p, ms, perm, k + 1)

Count(ms, m) == Cardinality({k \in 1..Len(ms) : ms[k] = m})

\* the same entries with the same lines, in any order
SameEntries(ms1, ms2) ==
    /\ Len(ms1) = Len(ms2)
    /\ \A k \in 1..Len(ms1) : Count(ms1, ms1[k]) = Count(ms2, ms1[k])

----------------------------------------------------------------------------
\* Claims about create_moves_from_pivot

\* C1: when create_moves_from_pivot completes without error, every entry
\* handed to account.move creation has credit - debit summing to zero
\* within the currency rounding precision.
C1_CreatedEntriesBalanced ==
    pc = "returned" => \A k \in 1..Len(rmoves) : Balanced(rmoves[k])

\* C2: every entry handed to creation, whether sealed during the scan or at
\* the end of the input, has at least 2 lines.
C2_CreatedEntriesHaveTwoLines ==
    \A k \in 1..Len(rmoves) : Len(rmoves[k].line_ids) >= 2

\* C3: no partial commit.  An entry is created only once every line passed
\* the matching and checking loop and the whole grouping scan, with its
\* final balance check, has finished without error; when an error is
\* raised no entry has been created.
C3_NoPartialCommit ==
    /\ rmoves # <<>> =>
          /\ pc \in {"create", "returned"}
          /\ error = NoError
          /\ \A pos \in 1..Len(pivot) :
                /\ MatchError(pivot[pos]) = NoError
                /\ pivot[pos].account_id # NoId
                /\ pivot[pos].journal_id # NoId
          /\ ExtractMoves(pivot).error = NoError
          /\ ExtractMoves(pivot).moves = moves
    /\ pc = "raised" => error # NoError /\ rmoves = <<>>

\* C3 witness: an error is raised by the scan after a first entry was
\* already assembled, and nothing has been created.
C3_Witness ==
    /\ pc = "raised"
    /\ Len(moves) >= 1
    /\ rmoves = <<>>

\* C7: when a line starts a new entry while an entry is open (the first of
\* the file or a later one) whose running balance is not zero within the
\* rounding precision, the method fails with the "entry ending at line N-1
\* is not balanced" error, N being the line's number, instead of sealing the
\* open entry.  Stated for open entries of two lines or more, which the
\* "more than 1 line" assertion lets through.
C7_UnbalancedOpenEntryRaises ==
    [][ ( /\ pc = "extract"
          /\ idx <= Len(pivot)
          /\ Len(cur_move.line_ids) >= 2
          /\ ~float_is_zero(cur_balance, Rounding)
          /\ ~( /\ cur_ref = pivot[idx].ref
                /\ cur_journal_id = pivot[idx].journal_id
                /\ cur_date = pivot[idx].date ) )
        => ( /\ pc' = "raised"
             /\ error' = UserError(pivot[idx].line - 1, "not balanced") )
      ]_vars

\* C8: for an input whose consecutive blocks are each emitted as one
\* balanced entry, every reordering of the blocks gives the same entries
\* with the same lines.
C8_BlockPermutationStable ==
    (pc = "returned" /\ \A k \in 1..Len(moves) : Balanced(moves[k])) =>
        \A perm \in Permutations(1..Len(moves)) :
            LET r == ExtractMoves(Reordered(pivot, moves, perm, 1))
            IN /\ r.error = NoError
               /\ SameEntries(r.moves, moves)

\* the line of the pivot the scan is about to read has the key of the open
\* entry
SameKey ==
    /\ cur_ref = pivot[idx].ref
    /\ cur_journal_id = pivot[idx].journal_id
    /\ cur_date = pivot[idx].date

\* the step appends the line being read to the open entry
AppendedToOpenEntry ==
    /\ pc' = "extract"
    /\ moves' = moves
    /\ cur_move' = [cur_move EXCEPT
                       !.line_ids = Append(@, _prepare_move_line(pivot[idx]))]

\* C11: in the grouping scan a line is appended to the open entry if and
\* only if its (journal, reference, date) key equals the current group key
\* and the running balance is not zero within the rounding precision; in
\* particular, when the open entry is balanced, a line with the identical
\* key is not merged into it.
C11_AppendIffSameKeyAndOpen ==
    [][ ( /\ pc = "extract"
          /\ idx <= Len(pivot) )
        => ( /\ AppendedToOpenEntry <=>
                    (SameKey /\ ~float_is_zero(cur_balance, Rounding))
             /\ (cur_move # EmptyDict /\ Balanced(cur_move) /\ SameKey)
                    => ~AppendedToOpenEntry )
      ]_vars

\* the line lists of the entries ms, one after the other
RECURSIVE AllLines(_)
AllLines(ms) ==
    IF ms = <<>> THEN <<>>
    ELSE Head(ms).line_ids \o AllLines(Tail(ms))

\* the move lines of the pivot lines of p, in the order of p
PreparedLines(p) == [pos \in 1..Len(p) |-> _prepare_move_line(p[pos])]

\* the pivot lines that went into the k-th entry of ms have its header
HeaderOfItsLines(p, ms, k) ==
    \A pos \in BlockStart(ms, k)..(BlockStart(ms, k) + Len(ms[k].line_ids) - 1) :
        /\ pos <= Len(p)
        /\ p[pos].journal_id = ms[k].journal_id
        /\ p[pos].ref = ms[k].ref
        /\ p[pos].date = ms[k].date

\* C12: when create_moves_from_pivot completes without error, the line
\* lists of the created entries, concatenated in creation order, are the
\* input pivot lines in their order (none dropped, duplicated or moved),
\* and every line of an entry has the journal, reference and date of the
\* entry's header.
C12_EntriesPartitionInput ==
    pc = "returned" =>
        /\ error = NoError
        /\ AllLines(rmoves) = PreparedLines(pivot)
        /\ \A k \in 1..Len(rmoves) :
              /\ rmoves[k].line_ids # <<>>
              /\ HeaderOfItsLines(pivot, rmoves, k)

\* C12 witness: a pivot of MaxLines lines under two keys was imported as
\* two entries.
C12_Witness ==
    /\ pc = "returned"
    /\ Len(pivot) = MaxLines
    /\ Len(rmoves) = 2
    /\ rmoves[1].journal_id # rmoves[2].journal_id
    /\ Len(rmoves[1].line_ids) = 2

----------------------------------------------------------------------------
\* reconcile_move_lines

\* 10 ** -0.01 = 0.977237..., in thousandths, rounded down
TenPowMinusRounding == 977

\* odoo.tools.float_is_zero(value, precision_digits=d) takes d as a number
\* of decimal digits: its epsilon is 10 ** -d, and the value is zero when
\* it rounds (HALF-UP) to 0 in units of epsilon, that is |value| < epsilon/2.
\* reconcile_move_lines passes the currency rounding (0.01) as d, so epsilon
\* is 10 ** -0.01; with value a whole number of thousandths,
\* 2 * |value| < 977.237... is 2 * |value| <= 977.
float_is_zero_precision_digits(value, precision_digits) ==
    LET epsilon == CASE precision_digits = Rounding -> TenPowMinusRounding
    IN 2 * Abs(value) <= epsilon

\* account.account.reconcile ('Allow Reconciliation') by account id
AccountReconcile == [a \in {11, 12} |-> a = 11]

\* (import_reconcile, account_id, partner_id, credit, debit)
MoveLineShapes ==
    [import_reconcile : {NoTag, "", "A", "B"},
     account_id : {11, 12},
     partner_id : {NoId, 7},
     amount : { <<1000, 0>>, <<0, 1000>>, <<0, 1100>> }]

MoveLinesOf(shapes) ==
    [pos \in 1..Len(shapes) |->
        [id |-> pos,
         import_reconcile |-> shapes[pos].import_reconcile,
         account_id |-> shapes[pos].account_id,
         partner_id |-> shapes[pos].partner_id,
         credit |-> shapes[pos].amount[1],
         debit |-> shapes[pos].amount[2]]]

AsmIdle ==
    /\ pivot = <<>>
    /\ pc = "idle"
    /\ idx = 1
    /\ moves = <<>>
    /\ cur_journal_id = NoId
    /\ cur_ref = NoRef
    /\ cur_date = NoDate
    /\ cur_balance = 0
    /\ cur_move = EmptyDict
    /\ rmoves = <<>>
    /\ posted = FALSE
    /\ error = NoError

\* reconcile_move_lines is entered with the lines of the moves just created
RecInit ==
    /\ AsmIdle
    /\ DecIdle
    /\ \E n \in 0..MaxMoveLines : \E shapes \in [1..n -> MoveLineShapes] :
          move_lines = MoveLinesOf(shapes)
    /\ rpc = "search"
    /\ lines = <<>>
    /\ torec = <<>>
    /\ ridx = 1
    /\ reconciled = <<>>
    /\ warnings = <<>>
    /\ rerror = NoError

\* search([('move_id', 'in', moves.ids), ('import_reconcile', '!=', False)]):
\* the lines whose import_reconcile is not NULL; an empty string is kept
RECURSIVE SelectSeq2(_, _)
SelectSeq2(ls, pos) ==
    IF pos > Len(ls) THEN <<>>
    ELSE IF ls[pos].import_reconcile # NoTag
         THEN <<ls[pos]>> \o SelectSeq2(ls, pos + 1)
         ELSE SelectSeq2(ls, pos + 1)

Search ==
    /\ rpc = "search"
    /\ lines' = SelectSeq2(move_lines, 1)
    /\ rpc' = "group"
    /\ UNCHANGED <<move_lines, torec, ridx, reconciled, warnings, rerror>>
    /\ UNCHANGED <<asmVars, decVars>>

\* position of the mark in the dict, 0 when it is not a key
KeyIndex(d, mark) ==
    IF \E k \in 1..Len(d) : d[k].rec_ref = mark
    THEN CHOOSE k \in 1..Len(d) : d[k].rec_ref = mark
    ELSE 0

\* "for line in lines": torec[mark] += line, or torec[mark] = line
RECURSIVE FillTorec(_, _, _)
FillTorec(d, ls, pos) ==
    IF pos > Len(ls) THEN d
    ELSE LET line == ls[pos]
             k == KeyIndex(d, line.import_reconcile)
         IN IF k # 0
            THEN FillTorec([d EXCEPT ![k].lines_to_rec = Append(@, line)], ls, pos + 1)
            ELSE FillTorec(Append(d, [rec_ref |-> line.import_reconcile,
                                      lines_to_rec |-> <<line>>]), ls, pos + 1)

Group ==
    /\ rpc = "group"
    /\ torec' = FillTorec(<<>>, lines, 1)
    /\ rpc' = "loop"
    /\ ridx' = 1
    /\ UNCHANGED <<move_lines, lines, reconciled, warnings, rerror>>
    /\ UNCHANGED <<asmVars, decVars>>

TypeError(msg) == [type |-> "TypeError", line |-> 0, msg |-> msg]

\* what one iteration of "for rec_ref, lines_to_rec in torec.items()" does:
\* "skip" with the reason logged, "raise", or "reconcile"
Decide(lines_to_rec) ==
    LET total == SumLines(lines_to_rec)
        accounts == {lines_to_rec[k].account_id : k \in 1..Len(lines_to_rec)}
        partners == {lines_to_rec[k].partner_id : k \in 1..Len(lines_to_rec)}
        prec == Rounding
    IN IF Len(lines_to_rec) < 2
       THEN [do |-> "skip", why |-> "this ref is only on 1 move line"]
       ELSE IF ~float_is_zero_precision_digits(total, prec)
       THEN [do |-> "skip", why |-> "not balanced"]
       ELSE IF Cardinality(accounts) > 1
       THEN [do |-> "skip", why |-> "different accounts"]
       ELSE IF ~AccountReconcile[CHOOSE a \in accounts : TRUE]
       THEN [do |-> "skip", why |-> "not configured with 'Allow Reconciliation'"]
       ELSE IF Cardinality(partners) > 1
       \* ', '.join(partners.keys()): the keys are ids (int) or False
       THEN [do |-> "raise", why |-> "sequence item 0: expected str instance"]
       ELSE [do |-> "reconcile", why |-> ""]

\* one iteration of "for rec_ref, lines_to_rec in torec.items()"
ReconcileRef ==
    /\ rpc = "loop"
    /\ ridx <= Len(torec)
    /\ LET d == Decide(torec[ridx].lines_to_rec) IN
        /\ warnings' = IF d.do = "skip"
                       THEN Append(warnings, [rec_ref |-> torec[ridx].rec_ref,
                                              why |-> d.why])
                       ELSE warnings
        /\ reconciled' = IF d.do = "reconcile"
                         THEN Append(reconciled, torec[ridx].lines_to_rec)
                         ELSE reconciled
        /\ rerror' = IF d.do = "raise" THEN TypeError(d.why) ELSE rerror
        /\ rpc' = IF d.do = "raise" THEN "raised" ELSE rpc
        /\ ridx' = IF d.do = "raise" THEN ridx ELSE ridx + 1
    /\ UNCHANGED <<move_lines, lines, torec>>
    /\ UNCHANGED <<asmVars, decVars>>

\* logger.info('Reconcile imported moves finished')
Finished ==
    /\ rpc = "loop"
    /\ ridx > Len(torec)
    /\ rpc' = "returned"
    /\ UNCHANGED <<move_lines, lines, torec, ridx, reconciled, warnings, rerror>>
    /\ UNCHANGED <<asmVars, decVars>>

RecNext ==
    \/ Search
    \/ Group
    \/ ReconcileRef
    \/ Finished

RecSpec == RecInit /\ [][RecNext]_vars

----------------------------------------------------------------------------
\* Claims about reconcile_move_lines

\* C4: reconcile_move_lines never raises, whatever the created lines: a
\* mark that fails one of the five rules is logged and skipped and the
\* remaining marks are processed.
C4_NeverRaises ==
    rpc # "raised" /\ rerror = NoError

\* C5: reconcile() is called for a mark only if credit - debit over its
\* lines is zero within the monetary rounding precision, |sum| < precision/2.
C5_ReconciledOnlyIfBalanced ==
    \A k \in 1..Len(reconciled) :
        float_is_zero(SumLines(reconciled[k]), Rounding)

\* C6: every recordset on which reconcile() is called holds only lines with
\* one and the same non-empty reconcile tag and one and the same account.
C6_ReconciledShareTagAndAccount ==
    \A k \in 1..Len(reconciled) :
        \A pos, j \in 1..Len(reconciled[k]) :
            /\ reconciled[k][pos].import_reconcile \notin {NoTag, ""}
            /\ reconciled[k][pos].import_reconcile = reconciled[k][j].import_reconcile
            /\ reconciled[k][pos].account_id = reconciled[k][j].account_id

----------------------------------------------------------------------------
\* Format decoders (file2pivot) and update_pivot

\* field texts of the input files
DateToks == {"15/02/2017", "15022017", "170215", "20170215", ""}
NumToks == {"", "12.50", "12,50", "-5.00", "x"}

Parsed(v) == [ok |-> TRUE, v |-> v]
NotParsed == [ok |-> FALSE, v |-> 0]

\* datetime.strptime(tok, fmt) on the texts of DateToks: the date it
\* returns, or ValueError (NotParsed)
strptime(tok, fmt) ==
    CASE fmt = "%d/%m/%Y" /\ tok = "15/02/2017" -> Parsed("2017-02-15")
      [] fmt = "%d%m%Y" /\ tok = "15022017" -> Parsed("2017-02-15")
      [] fmt = "%d%m%Y" /\ tok = "170215" -> Parsed("0215-07-01")
      [] fmt = "%y%m%d" /\ tok = "170215" -> Parsed("2017-02-15")
      [] fmt = "%d%m%y" /\ tok = "170215" -> Parsed("2015-02-17")
      [] fmt = "%Y%m%d" /\ tok = "20170215" -> Parsed("2017-02-15")
      [] fmt = "%Y%m%d" /\ tok = "170215" -> Parsed("1702-01-05")
      [] OTHER -> [ok |-> FALSE, v |-> ""]

\* float(tok) on the texts of NumToks, in thousandths, or ValueError
PyFloat(tok) ==
    CASE tok = "12.50" -> Parsed(12500)
      [] tok = "-5.00" -> Parsed(-5000)
      [] tok = "0" -> Parsed(0)
      [] OTHER -> NotParsed

\* tok.replace(',', '.')
ReplaceComma(tok) == IF tok = "12,50" THEN "12.50" ELSE tok

\* int(tok) on the 13 characters l[42:55] of a Quadra line, in cents
PyIntOf(tok) ==
    CASE tok = "0000000001250" -> Parsed(1250)
      [] tok = "-000000000500" -> Parsed(-500)
      [] tok = "0000000000000" -> Parsed(0)
      [] OTHER -> NotParsed

\* Python "cond and amount or other", amount being a float
AndOr(cond, amount, other) ==
    IF cond /\ amount # 0 THEN Float(amount) ELSE other

ValueError(msg) == [type |-> "ValueError", line |-> 0, msg |-> msg]
BadFloat == ValueError("could not convert string to float")
BadInt == ValueError("invalid literal for int() with base 10")
BadDate == ValueError("time data does not match format")

\* values of the keys of a pivot line; t = "absent" when the key is not set
Absent == [t |-> "absent", v |-> ""]
Str(v) == [t |-> "str", v |-> v]
Code(v) == [t |-> "code", v |-> v]
Ref(v) == [t |-> "ref", v |-> v]
Datetime(v) == [t |-> "datetime", v |-> v]
Date(v) == [t |-> "date", v |-> v]

Vals(journal, account, credit, debit, date, name, line) ==
    [journal |-> journal, account |-> account, analytic |-> Absent,
     partner |-> Absent, credit |-> credit, debit |-> debit, date |-> date,
     name |-> name, ref |-> Absent, reconcile_ref |-> Absent, line |-> line]

\* what one iteration of a decoder's loop does with its row
Emit(vals) == [do |-> "append", vals |-> vals, err |-> NoError]
Skip == [do |-> "continue", vals |-> <<>>, err |-> NoError]
Fail(err) == [do |-> "raise", vals |-> <<>>, err |-> err]

\* the rows of the files, per format (the columns the decoder reads that
\* are not listed hold "VT", "411000" and "label")
GenericcsvRows ==
    [date : DateToks, partner : {"", "1242"}, analytic : {"", "ADM"},
     debit : NumToks, credit : NumToks]
ExtensoRows == [date : DateToks, debit : NumToks, credit : NumToks]
FectxtRows ==
    [date : DateToks, debit : NumToks, credit : NumToks,
     reconcile_ref : {"", "AA"}]
NibelisRows ==
    [date : DateToks, amount : NumToks, sign : {"C", "D", ""},
     analytic : {"", "ADM"}]
CielpayeRows ==
    [date : DateToks, amount : NumToks, sign : {"C", "D", ""},
     name : {"", "label"}]
\* a Quadra line: len(l) >= 54, l[0], l[41], l[42:55], l[14:20]
QuadraRows ==
    [long : BOOLEAN, type : {"M", "X"}, sign : {"C", "D", " "},
     cents : {"0000000001250", "-000000000500", "000000000012x"},
     date : {"170215", "      "}]
\* a row of the second sheet: row[0], row[3], row[5], row[6]
PayfitRows ==
    [account : {"", "641000.0", "Total"}, analytic : {"", "ADM"},
     debit : NumToks, credit : NumToks]

RowsOf(format) ==
    CASE format = "genericcsv" -> GenericcsvRows
      [] format = "extenso" -> ExtensoRows
      [] format = "fec_txt" -> FectxtRows
      [] format = "nibelis" -> NibelisRows
      [] format = "cielpaye" -> CielpayeRows
      [] format = "quadra" -> QuadraRows
      [] format = "payfit" -> PayfitRows

FileFormats ==
    {"genericcsv", "nibelis", "quadra", "extenso", "cielpaye", "payfit", "fec_txt"}

\* loop body of extenso2pivot on the row l, the counter being n
ExtensoRow(l, n) ==
    LET credit == PyFloat(ReplaceComma(IF l.credit # "" THEN l.credit ELSE "0"))
        debit == PyFloat(ReplaceComma(IF l.debit # "" THEN l.debit ELSE "0"))
        date == strptime(l.date, "%d%m%Y")
    IN IF ~credit.ok \/ ~debit.ok THEN Fail(BadFloat)
       ELSE IF ~date.ok THEN Fail(BadDate)
       ELSE Emit(Vals(Code("VT"), Code("411000"), Float(credit.v),
                      Float(debit.v), Datetime(date.v), Absent, n))

\* loop body of cielpaye2pivot
CielpayeRow(l, n) ==
    IF ~(l.date # "" /\ l.name # "" /\ l.amount # "") THEN Skip
    ELSE LET amount == PyFloat(ReplaceComma(l.amount))
             date == strptime(l.date, "%d/%m/%Y")
         IN IF ~amount.ok THEN Fail(BadFloat)
            ELSE IF ~date.ok THEN Fail(BadDate)
            ELSE Emit(Vals(Code("VT"), Code("411000"),
                           AndOr(l.sign = "C", amount.v, PyInt(0)),
                           AndOr(l.sign = "D", amount.v, PyInt(0)),
                           Datetime(date.v), Str(l.name), n))

\* loop body of fectxt2pivot
FectxtRow(l, n) ==
    IF n = 1 THEN Skip
    ELSE LET credit == PyFloat(ReplaceComma(IF l.credit # "" THEN l.credit ELSE "0"))
             debit == PyFloat(ReplaceComma(IF l.debit # "" THEN l.debit ELSE "0"))
             date == strptime(l.date, "%Y%m%d")
         IN IF ~credit.ok \/ ~debit.ok THEN Fail(BadFloat)
            ELSE IF ~date.ok THEN Fail(BadDate)
            ELSE Emit([Vals(Code("VT"), Code("411000"), Float(credit.v),
                            Float(debit.v), Datetime(date.v), Str("label"), n)
                         EXCEPT !.reconcile_ref = Str(l.reconcile_ref)])

\* loop body of genericcsv2pivot
GenericcsvRow(l, n) ==
    LET credit == IF l.credit # "" THEN PyFloat(l.credit) ELSE Parsed(0)
        debit == IF l.debit # "" THEN PyFloat(l.debit) ELSE Parsed(0)
        date == strptime(l.date, "%d/%m/%Y")
    IN IF ~credit.ok \/ ~debit.ok THEN Fail(BadFloat)
       ELSE IF ~date.ok THEN Fail(BadDate)
       ELSE Emit([Vals(Code("VT"), Code("411000"), Float(credit.v),
                       Float(debit.v), Datetime(date.v), Str("label"), n)
                    EXCEPT !.analytic = IF l.analytic # "" THEN Code(l.analytic) ELSE @,
                           !.partner = IF l.partner # "" THEN Ref(l.partner) ELSE @])

\* loop body of nibelis2pivot
NibelisRow(l, n) ==
    IF n = 1 THEN Skip
    ELSE LET amount == PyFloat(ReplaceComma(l.amount))
             date == strptime(l.date, "%y%m%d")
         IN IF ~amount.ok THEN Fail(BadFloat)
            ELSE IF ~date.ok THEN Fail(BadDate)
            ELSE Emit([Vals(Code("VT"), Code("411000"),
                            AndOr(l.sign = "C", amount.v, PyFalse),
                            AndOr(l.sign = "D", amount.v, PyFalse),
                            Datetime(date.v), Str("label"), n)
                         EXCEPT !.analytic = IF l.analytic # "" THEN Code(l.analytic)
                                             ELSE [t |-> "bool", v |-> ""]])

\* loop body of quadra2pivot
QuadraRow(l, n) ==
    IF ~l.long THEN Skip
    ELSE IF ~(l.type = "M" /\ l.sign \in {"C", "D"}) THEN Skip
    ELSE LET amount_cents == PyIntOf(l.cents)
             amount == amount_cents.v * 10
             date == strptime(l.date, "%d%m%y")
         IN IF ~amount_cents.ok THEN Fail(BadInt)
            ELSE IF ~date.ok THEN Fail(BadDate)
            ELSE Emit(Vals(Code("VT"), Code("411000"),
                           AndOr(l.sign = "C", amount, PyFalse),
                           AndOr(l.sign = "D", amount, PyFalse),
                           Datetime(date.v), Str("label"), n))

\* loop body of payfit2pivot
PayfitRow(l, n) ==
    IF n = 1 THEN Skip
    ELSE IF l.account = "" THEN Skip
    ELSE IF l.account = "Total" THEN Skip
    ELSE LET debit == IF l.debit # "" THEN PyFloat(l.debit) ELSE Parsed(0)
             credit == IF l.credit # "" THEN PyFloat(l.credit) ELSE Parsed(0)
         IN IF ~debit.ok \/ ~credit.ok THEN Fail(BadFloat)
            ELSE Emit([Vals(Absent, Code("641000"), Float(credit.v),
                            Float(debit.v), Absent, Str("Paye"), n)
                         EXCEPT !.analytic = IF l.analytic # "" THEN Code(l.analytic)
                                             ELSE @])

\* file2pivot: the decoder of the selected format, on one row
file2pivot(format, l, n) ==
    CASE format = "nibelis" -> NibelisRow(l, n)
      [] format = "genericcsv" -> GenericcsvRow(l, n)
      [] format = "quadra" -> QuadraRow(l, n)
      [] format = "extenso" -> ExtensoRow(l, n)
      [] format = "payfit" -> PayfitRow(l, n)
      [] format = "cielpaye" -> CielpayeRow(l, n)
      [] format = "fec_txt" -> FectxtRow(l, n)

\* the pattern each text decoder gives to datetime.strptime
DatePattern(format) ==
    CASE format = "nibelis" -> "%y%m%d"
      [] format = "genericcsv" -> "%d/%m/%Y"
      [] format = "quadra" -> "%d%m%y"
      [] format = "extenso" -> "%d%m%Y"
      [] format = "cielpaye" -> "%d/%m/%Y"
      [] format = "fec_txt" -> "%Y%m%d"

\* run_import is entered with a file of the selected format
DecInit ==
    /\ AsmIdle
    /\ RecIdle
    /\ file_format \in FileFormats
    /\ \E n \in 0..MaxRows : rows \in [1..n -> RowsOf(file_format)]
    /\ i = 0
    /\ res = <<>>
    /\ dpc = "file2pivot"
    /\ derror = NoError

\* one iteration of the loop of the decoder of `format`: i += 1, then the body
DecodeLoop(format, out) ==
    /\ dpc = "file2pivot"
    /\ file_format = format
    /\ i < Len(rows)
    /\ i' = i + 1
    /\ res' = IF out.do = "append" THEN Append(res, out.vals) ELSE res
    /\ dpc' = IF out.do = "raise" THEN "raised" ELSE dpc
    /\ derror' = out.err
    /\ UNCHANGED <<file_format, rows>>
    /\ UNCHANGED <<asmVars, recVars>>

extenso2pivot == DecodeLoop("extenso", file2pivot("extenso", rows[i + 1], i + 1))
cielpaye2pivot == DecodeLoop("cielpaye", file2pivot("cielpaye", rows[i + 1], i + 1))
fectxt2pivot == DecodeLoop("fec_txt", file2pivot("fec_txt", rows[i + 1], i + 1))
genericcsv2pivot == DecodeLoop("genericcsv", file2pivot("genericcsv", rows[i + 1], i + 1))
nibelis2pivot == DecodeLoop("nibelis", file2pivot("nibelis", rows[i + 1], i + 1))
quadra2pivot == DecodeLoop("quadra", file2pivot("quadra", rows[i + 1], i + 1))
payfit2pivot == DecodeLoop("payfit", file2pivot("payfit", rows[i + 1], i + 1))

\* "return res": the decoder hands the pivot to run_import
ReturnPivot ==
    /\ dpc = "file2pivot"
    /\ i = Len(rows)
    /\ dpc' = "update_pivot"
    /\ UNCHANGED <<file_format, rows, i, res, derror>>
    /\ UNCHANGED <<asmVars, recVars>>

\* the values of force_move_date, force_move_line_name, force_move_ref and
\* force_journal_id (False when not set)
Forced ==
    [force_move_date : {"", "2019-12-31"}, force_move_line_name : {"", "Paye"},
     force_move_ref : {"", "R1"}, force_journal : {NoId, 1}]

\* body of "for l in pivot" of update_pivot
UpdateLine(l, f) ==
    LET l1 == IF f.force_move_date # "" THEN [l EXCEPT !.date = Date(f.force_move_date)] ELSE l
        l2 == IF f.force_move_line_name # "" THEN [l1 EXCEPT !.name = Str(f.force_move_line_name)] ELSE l1
        l3 == IF f.force_move_ref # "" THEN [l2 EXCEPT !.ref = Str(f.force_move_ref)] ELSE l2
        l4 == IF f.force_journal # NoId THEN [l3 EXCEPT !.journal = [t |-> "recordset", v |-> "1"]] ELSE l3
        l5 == IF l4.date.t = "datetime" THEN [l4 EXCEPT !.date = Str(l4.date.v)] ELSE l4
        l6 == IF ~Truthy(l5.credit) THEN [l5 EXCEPT !.credit = Float(0)] ELSE l5
    IN IF ~Truthy(l6.debit) THEN [l6 EXCEPT !.debit = Float(0)] ELSE l6

update_pivot ==
    /\ dpc = "update_pivot"
    /\ \E f \in Forced : res' = [k \in 1..Len(res) |-> UpdateLine(res[k], f)]
    /\ dpc' = "updated"
    /\ UNCHANGED <<file_format, rows, i, derror>>
    /\ UNCHANGED <<asmVars, recVars>>

DecNext ==
    \/ extenso2pivot
    \/ cielpaye2pivot
    \/ fectxt2pivot
    \/ genericcsv2pivot
    \/ nibelis2pivot
    \/ quadra2pivot
    \/ payfit2pivot
    \/ ReturnPivot
    \/ update_pivot

DecSpec == DecInit /\ [][DecNext]_vars

----------------------------------------------------------------------------
\* Claims about the decoders

\* C9: for every decoder and every input file, every emitted pivot line has
\* debit >= 0 and credit >= 0, also after update_pivot.
C9_AmountsNonNegative ==
    \A k \in 1..Len(res) : res[k].credit.v >= 0 /\ res[k].debit.v >= 0

\* C10: in every text decoder a data row whose date field does not match
\* the format's date pattern makes the whole decode fail with an error that
\* carries the line number of that row.  Stated for the rows whose amount
\* fields parse, so that the date is what the decoder fails on.
C10_DateErrorCarriesLine ==
    \A k \in 1..i :
        ( /\ file_format # "payfit"
          /\ file2pivot(file_format, rows[k], k).do # "continue"
          /\ ~strptime(rows[k].date, DatePattern(file_format)).ok
          /\ file2pivot(file_format, rows[k], k).err = BadDate )
        => ( /\ dpc = "raised"
             /\ derror.type # ""
             /\ derror.line = k )

====
